---- MODULE Spec2Model ----
(***************************************************************************)
(* Stratum proxy of src/main.py: one shared TransactionState (tx), the     *)
(* template poller query_loop, and the StratumSession request handlers.    *)
(* asyncio runs the tasks cooperatively, so every stretch of code between  *)
(* two awaits is one atomic action; the awaits (node HTTP requests and     *)
(* send_notification) are the points where other tasks may run.            *)
(*                                                                         *)
(* Byte strings are modelled by the values they are computed from, and the *)
(* hash functions as injective constructors (dsha256(b) is <<"dsha256",b>>)*)
(***************************************************************************)
EXTENDS Integers, Sequences, FiniteSets, TLC

VARIABLES
    tx,        \* the one TransactionState shared by the poller and the sessions
    node,      \* the node's current tip: the template getblocktemplate returns
    q,         \* query_loop: where it stands and its local variables
    sess,      \* the StratumSession objects
    out,       \* the messages the last step sent to miners (replies, notifications)
    obs,       \* what the current tick of query_loop saw when it began
    accepted,  \* submits answered with success since the node's height last changed
    env,       \* the inputs the surroundings may supply in this run (fixed by Init)
    call       \* the call of a pure function under examination, when there is one

vars == <<tx, node, q, sess, out, obs, accepted, env, call>>

\* Python's None, for the fields that hold names and for those that hold bytes
\* or numbers (a held value v of the latter kind is never the empty sequence).
None == "None"
Unset == << >>

\* ------------------------------------------------------------------ bounds
\* The node's template height ranges over FirstHeight .. FirstHeight + MaxAdvance.
MaxAdvance == 1

\* TransactionState.update_coinbase_every is 10 * 60 * 10 ticks in the source;
\* the model scales the re-roll period down to a few ticks.
update_coinbase_every == 2

KAWPOW_EPOCH_LENGTH == 7500

\* The heights straddle an epoch boundary, so the seed hash changes with height.
FirstHeight == KAWPOW_EPOCH_LENGTH - 1

\* Connections the server may accept.
Sessions == {"s1", "s2"}

\* The inputs of a run: the connections that are opened, the mempool contents
\* the node may put in a template (each entry stands for one {'data': ...,
\* 'txid': ...} element of result.transactions), the values int(time.time())
\* may take at a tick, the user names miners authorize with (the parts that
\* dots separate: address, worker), and the testnet argument of the process.
SpecEnv ==
    [sessions |-> Sessions,
     mempools |-> {<< >>, <<1>>},
     clock |-> {1400},
     addresses |-> {<<"mainA", "rig1">>},
     testnet |-> FALSE]

\* No pure function is under examination.
NoCall == << >>

\* ------------------------------------------------------------ binary codec
dsha256(b) == <<"dsha256", b>>

PairUp(s) == [i \in 1 .. (Len(s) \div 2) |-> dsha256(<<s[2 * i - 1], s[2 * i]>>)]

\* A slip in line 51: the last id is not appended, so zip drops it when the
\* count is odd.
RECURSIVE merkle_loop_no_append(_)
merkle_loop_no_append(txids) ==
    IF Len(txids) > 1
    THEN merkle_loop_no_append(PairUp(txids))
    ELSE txids[1]

RECURSIVE merkle_loop(_)
merkle_loop(txids) ==
    IF Len(txids) > 1
    THEN merkle_loop(PairUp(Append(txids, txids[Len(txids)])))
    ELSE txids[1]

merkle_from_txids(txids) ==
    IF Len(txids) = 0 THEN dsha256(<< >>)
    ELSE IF Len(txids) = 1 THEN txids[1]
    ELSE merkle_loop(txids)

RECURSIVE seed_hash_of(_)
seed_hash_of(n) == IF n = 0 THEN <<"zero32">> ELSE <<"keccak_256", seed_hash_of(n - 1)>>

\* --------------------------------------------------------------- template
\* The getblocktemplate result the node returns for its current tip.  version,
\* bits, previousblockhash, coinbasevalue, default_witness_commitment, flags and
\* target are fixed by the height.
Template(n) ==
    [height |-> n.height,
     transactions |-> n.transactions,
     version |-> "version",
     bits |-> <<"bits", n.height>>,
     previousblockhash |-> <<"block", n.height - 1>>,
     coinbasevalue |-> <<"subsidy", n.height>>,
     default_witness_commitment |-> <<"commitment", n.height>>,
     flags |-> "",
     target |-> <<"target", n.height>>]

\* ------------------------------------------------------- TransactionState
TxInit ==
    [coinbase |-> Unset,
     coinbase_no_wit |-> Unset,
     transport |-> None,
     transactions |-> << >>,
     update_counter |-> update_coinbase_every,
     my_address |-> None,
     merkle |-> Unset,
     header_hash |-> Unset,
     seed_hash |-> Unset,
     last_ts |-> Unset,
     partial_header |-> Unset,
     wait_for_new_block |-> FALSE]

partial_block(t) ==
    [header |-> t.partial_header,
     count |-> Len(t.transactions),
     transactions |-> t.transactions]

\* Line 75: height.to_bytes(4, 'little').
to_bytes4(height) ==
    <<height % 256, (height \div 256) % 256, (height \div 65536) % 256,
      (height \div 16777216) % 256>>

\* Lines 76-77: while make_height[-1] == 0: make_height = make_height[:-1].
\* Indexing the empty bytes object raises IndexError.
RECURSIVE strip_zeros(_)
strip_zeros(make_height) ==
    IF make_height = << >>
    THEN [raised |-> TRUE, bytes |-> << >>]
    ELSE IF make_height[Len(make_height)] = 0
         THEN strip_zeros(SubSeq(make_height, 1, Len(make_height) - 1))
         ELSE [raised |-> FALSE, bytes |-> make_height]

\* Line 79: the length byte, the stripped height, and the flags or one zero
\* byte.
bip34_height(height, flags) ==
    LET make_height == strip_zeros(to_bytes4(height))
    IN  IF make_height.raised
        THEN make_height
        ELSE [raised |-> FALSE,
              bytes |-> <<Len(make_height.bytes)>> \o make_height.bytes
                            \o (IF flags = "" THEN <<0>> ELSE <<flags>>)]

\* The heights of the templates of this model are above zero, so that lines
\* 75-77 do not raise here.
build_coinbase_transaction(t, height, flags, my_address, my_sats, witness_commitment) ==
    LET body == [height |-> height, flags |-> flags, address |-> my_address,
                 sats |-> my_sats, commitment |-> witness_commitment,
                 bip34_height |-> bip34_height(height, flags).bytes]
    IN  [t EXCEPT !.coinbase = <<"witness", body>>,
                  !.coinbase_no_wit = <<"no_witness", body>>]

\* "Lock in the funny numbers": str(ts)[-3] == '4' and str(ts)[-2] == '6'.
FunnyTs(ts) ==
    LET a == IF (ts \div 100) % 10 = 4 THEN (ts \div 100) * 100 + 20 ELSE ts
    IN  IF (a \div 10) % 10 = 6 THEN (a \div 10) * 10 + 9 ELSE a

\* A slip in line 110: the five minutes are left out of the comparison.
HeldTsNoMargin(last_ts, ts) ==
    IF last_ts # Unset /\ (last_ts[1] % 1000 = 420 \/ last_ts[1] % 100 = 69)
    THEN IF ts > last_ts[1] THEN <<ts>> ELSE last_ts
    ELSE <<ts>>

\* "Hold on to the funny numbers": str(last_ts).endswith(('420', '69')).
\* last_ts is Unset or <<timestamp>>.
HeldTs(last_ts, ts) ==
    IF last_ts # Unset /\ (last_ts[1] % 1000 = 420 \/ last_ts[1] % 100 = 69)
    THEN IF ts > last_ts[1] + 60 * 5 THEN <<ts>> ELSE last_ts
    ELSE <<ts>>

clear_for_new_height(t) == [t EXCEPT !.transactions = << >>]

\* The result is the new TransactionState and the value returned.
update_transactions(t, new_height, tpl, now) ==
    IF t.wait_for_new_block
    THEN [tx |-> t, ret |-> TRUE]
    ELSE
      LET ts == FunnyTs(now)
          t1 == [t EXCEPT !.last_ts = HeldTs(t.last_ts, ts),
                          !.update_counter =
                              IF t.update_counter >= update_coinbase_every
                              THEN t.update_counter
                              ELSE t.update_counter + 1]
          changed_mine == t1.my_address # None
                          /\ (new_height \/ t1.update_counter >= update_coinbase_every)
          t2 == IF changed_mine
                THEN build_coinbase_transaction(
                         [t1 EXCEPT !.update_counter = 0], tpl.height, tpl.flags,
                         t1.my_address, tpl.coinbasevalue, tpl.default_witness_commitment)
                ELSE t1
          rebuild == t2.my_address # None
                     /\ (changed_mine
                         \/ Len(t2.transactions) # Len(tpl.transactions) + 1)
          new_transactions == <<t2.coinbase>> \o tpl.transactions
          transaction_ids ==
              <<dsha256(t2.coinbase_no_wit)>>
                  \o [i \in 1 .. Len(tpl.transactions) |-> <<"txid", tpl.transactions[i]>>]
          merkle == merkle_from_txids(transaction_ids)
          partial_header ==
              <<"header", tpl.height, tpl.bits, t2.last_ts[1], merkle,
                tpl.previousblockhash, tpl.version>>
      IN  IF rebuild
          THEN [tx |-> [t2 EXCEPT !.transactions = new_transactions,
                                  !.merkle = merkle,
                                  !.partial_header = partial_header,
                                  !.header_hash = dsha256(partial_header),
                                  !.seed_hash =
                                      seed_hash_of(tpl.height \div KAWPOW_EPOCH_LENGTH)],
                ret |-> TRUE]
          ELSE [tx |-> t2, ret |-> FALSE]

\* ------------------------------------------------------------------- state
QInit ==
    [pc |-> "fetch", height |-> -1, json_resp |-> Unset,
     clear_work |-> FALSE, should_notify |-> FALSE]

SessInit == [pc |-> "closed", block |-> Unset]

\* What the current tick has seen and done: wait_for_new_block when the tick
\* began, whether the fetched height differed from the previous one, whether
\* transactions was empty at line 277, whether mining.notify has been sent; and
\* whether a submit was rejected since a template was last processed.
ObsInit ==
    [wait0 |-> FALSE, changed |-> FALSE, noheld |-> FALSE, notified |-> FALSE,
     rejected |-> FALSE]

\* The tick is over: only `rejected` outlives it.
ObsSleep(o) == [ObsInit EXCEPT !.rejected = o.rejected]

\* The locals of query_loop that the rest of the tick no longer reads are dropped
\* when the loop goes back to sleep; height is kept for the next comparison.
QSleep(loop) ==
    [loop EXCEPT !.pc = "fetch", !.json_resp = Unset, !.clear_work = FALSE,
                 !.should_notify = FALSE]

\* The response to the request `re` of session s: a result or an RPCError message.
Reply(s, re, result) == [to |-> s, method |-> "response", re |-> re, params |-> result]

Notification(s, method, params) ==
    [to |-> s, method |-> method, re |-> None, params |-> params]

Connected == {s \in Sessions : sess[s].pc # "closed"}

Init ==
    /\ tx = TxInit
    /\ env = SpecEnv
    /\ node \in [height : {FirstHeight}, transactions : env.mempools]
    /\ q = QInit
    /\ sess = [s \in Sessions |-> SessInit]
    /\ out = {}
    /\ obs = ObsInit
    /\ accepted = 0
    /\ call = NoCall

\* ---------------------------------------------------------------- the node
\* A block is found (by this proxy's miners or by anyone else).
NodeNewBlock ==
    /\ node.height < FirstHeight + MaxAdvance
    /\ \E m \in env.mempools : node' = [height |-> node.height + 1, transactions |-> m]
    /\ accepted' = 0
    /\ out' = {}
    /\ UNCHANGED <<tx, q, sess, obs, env, call>>

NodeMempool ==
    /\ \E m \in env.mempools \ {node.transactions} : node' = [node EXCEPT !.transactions = m]
    /\ out' = {}
    /\ UNCHANGED <<tx, q, sess, obs, accepted, env, call>>

\* -------------------------------------------------------------- query_loop
\* The getblocktemplate request and its response (the awaits of lines 274-276).
QueryFetch ==
    /\ q.pc = "fetch"
    /\ q' = [q EXCEPT !.pc = "process", !.json_resp = <<Template(node)>>]
    /\ obs' = [obs EXCEPT !.wait0 = tx.wait_for_new_block]
    /\ out' = {}
    /\ UNCHANGED <<tx, node, sess, accepted, env, call>>

\* A slip in line 278: only the first template counts as a new height.
HeightChangedFirstOnly(height, tpl) == height = -1

\* Line 278: the fetched height differs from the one seen by the previous tick.
HeightChanged(height, tpl) == height # tpl.height

\* A slip in lines 277-279: clear_work follows the height comparison alone.
ClearWorkHeightOnly(t, height, tpl) == HeightChanged(height, tpl)

\* Lines 277-279: clear_work as passed to update_transactions and to mining.notify.
ClearWork(t, height, tpl) == (t.transactions = << >>) \/ HeightChanged(height, tpl)

\* Lines 293-296: where the loop goes after update_transactions.
AfterUpdate(t, should_notify, clear_work) ==
    IF should_notify /\ t.transport # None
    THEN (IF clear_work THEN "set_target" ELSE "notify")
    ELSE "fetch"

\* Lines 277-293, which run without an await.
QueryProcess ==
    /\ q.pc = "process"
    /\ \E now \in env.clock :
         LET tpl == q.json_resp[1]
             changed == HeightChanged(q.height, tpl)
             clear_work == ClearWork(tx, q.height, tpl)
             t0 == IF changed THEN clear_for_new_height(tx) ELSE tx
             r == update_transactions(t0, clear_work, tpl, now)
             pc == AfterUpdate(r.tx, r.ret, clear_work)
             loop == [q EXCEPT !.pc = pc,
                               !.height = tpl.height,
                               !.clear_work = clear_work,
                               !.should_notify = r.ret]
         IN  /\ tx' = r.tx
             /\ q' = IF pc = "fetch" THEN QSleep(loop) ELSE loop
             /\ obs' = IF pc = "fetch" THEN ObsInit
                       ELSE [obs EXCEPT !.changed = changed,
                                        !.noheld = (tx.transactions = << >>),
                                        !.rejected = FALSE]
    /\ out' = {}
    /\ UNCHANGED <<node, sess, accepted, env, call>>

\* Line 295.
QuerySetTarget ==
    /\ q.pc = "set_target"
    /\ q' = [q EXCEPT !.pc = "notify"]
    /\ out' = {Notification(tx.transport, "mining.set_target", q.json_resp[1].target)}
    /\ UNCHANGED <<tx, node, sess, obs, accepted, env, call>>

\* The parameters of mining.notify, line 296.
NotifyMessage(t, loop) ==
    [job_id |-> "0", header_hash |-> t.header_hash, seed_hash |-> t.seed_hash,
     target |-> loop.json_resp[1].target, clean_jobs |-> loop.clear_work,
     height |-> loop.height, bits |-> loop.json_resp[1].bits]

\* Line 296.
QueryNotify ==
    /\ q.pc = "notify"
    /\ out' = {Notification(tx.transport, "mining.notify", NotifyMessage(tx, q))}
    /\ IF q.clear_work
       THEN /\ q' = [q EXCEPT !.pc = "unlock"]
            /\ obs' = [obs EXCEPT !.notified = TRUE]
       ELSE /\ q' = QSleep(q)
            /\ obs' = ObsSleep(obs)
    /\ UNCHANGED <<tx, node, sess, accepted, env, call>>

\* A slip in lines 298-299: the lock is not released after a clean notify.
QueryUnlockKeepsLock ==
    /\ q.pc = "unlock"
    /\ q' = QSleep(q)
    /\ obs' = ObsSleep(obs)
    /\ out' = {}
    /\ UNCHANGED <<tx, node, sess, accepted, env, call>>

\* Lines 297-299.
QueryUnlock ==
    /\ q.pc = "unlock"
    /\ tx' = [tx EXCEPT !.wait_for_new_block = FALSE]
    /\ q' = QSleep(q)
    /\ obs' = ObsSleep(obs)
    /\ out' = {}
    /\ UNCHANGED <<node, sess, accepted, env, call>>

\* ----------------------------------------------------------- StratumSession
\* StratumSession.__init__: every new connection takes over tx.transport.
Connect(s) ==
    /\ sess[s].pc = "closed"
    /\ sess' = [sess EXCEPT ![s].pc = "open"]
    /\ tx' = [tx EXCEPT !.transport = s]
    /\ out' = {}
    /\ UNCHANGED <<node, q, obs, accepted, env, call>>

handle_subscribe(s) ==
    /\ sess[s].pc = "open"
    /\ out' = {Reply(s, "mining.subscribe", <<"00000000", 4>>)}
    /\ UNCHANGED <<tx, node, q, sess, obs, accepted, env, call>>

\* base58.b58decode_check of the address strings of the model: the version
\* byte and the payload, or a ValueError when the checksum does not match.
b58decode_check(address) ==
    CASE address = "mainA" -> [ok |-> TRUE, version |-> 60, payload |-> "hashA"]
      [] address = "mainB" -> [ok |-> TRUE, version |-> 60, payload |-> "hashB"]
      [] address = "testT" -> [ok |-> TRUE, version |-> 111, payload |-> "hashT"]
      [] OTHER -> [ok |-> FALSE, version |-> 0, payload |-> ""]

\* A slip in line 179: the version byte is not compared with the network's.
AddressAcceptedAnyVersion(address, testnet) == b58decode_check(address).ok

\* Lines 178-182: the address decodes and carries the version of the network.
AddressAccepted(address, testnet) ==
    /\ b58decode_check(address).ok
    /\ b58decode_check(address).version = (IF testnet THEN 111 ELSE 60)

\* Lines 176-184; username is args[0] split at its dots.
authorize_handler(s, username) ==
    /\ sess[s].pc = "open"
    /\ LET address == username[1]
       IN  IF AddressAccepted(address, env.testnet)
           THEN /\ tx' = [tx EXCEPT !.my_address = address]
                /\ out' = {Reply(s, "mining.authorize", "true")}
           ELSE /\ out' = {Reply(s, "mining.authorize",
                                 IF b58decode_check(address).ok
                                 THEN "Invalid address: is not a p2pkh address"
                                 ELSE "Invalid address: is not a valid address")}
                /\ UNCHANGED tx
    /\ UNCHANGED <<node, q, sess, obs, accepted, env, call>>

\* A slip in line 188: the guard forgets the empty transaction list.
NoActiveWorkLockOnly(t) == t.wait_for_new_block

\* Line 188: the guard of handle_submit.
NoActiveWork(t) == t.wait_for_new_block \/ t.transactions = << >>

\* Lines 188-203: from the request up to the submitblock request, which carries
\* the block assembled from partial_block().
handle_submit(s) ==
    /\ sess[s].pc = "open"
    /\ IF NoActiveWork(tx)
       THEN /\ out' = {Reply(s, "mining.submit", "Waiting for next block template")}
            /\ UNCHANGED <<tx, sess>>
       ELSE /\ sess' = [sess EXCEPT ![s] = [pc |-> "posting",
                                           block |-> <<partial_block(tx)>>]]
            /\ tx' = clear_for_new_height(tx)
            /\ out' = {}
    /\ UNCHANGED <<node, q, obs, accepted, env, call>>

\* What the node may answer to submitblock: a null result (accepted), an
\* error, or a result naming the reason of the rejection.
Answers == {"null", "error", "result"}

\* Lines 204-213: the node's answer to submitblock.
SubmitResponse(s, answer) ==
    /\ sess[s].pc = "posting"
    /\ sess' = [sess EXCEPT ![s] = [pc |-> "open", block |-> Unset]]
    /\ IF answer = "null"
       THEN /\ tx' = [tx EXCEPT !.wait_for_new_block = TRUE]
            /\ out' = {Reply(s, "mining.submit", "true")}
            /\ accepted' = IF accepted < 2 THEN accepted + 1 ELSE accepted
            /\ UNCHANGED obs
       ELSE /\ tx' = clear_for_new_height(tx)
            /\ out' = {Reply(s, "mining.submit", answer)}
            /\ obs' = [obs EXCEPT !.rejected = TRUE]
            /\ UNCHANGED accepted
    /\ UNCHANGED <<node, q, env, call>>

Next ==
    \/ NodeNewBlock
    \/ NodeMempool
    \/ QueryFetch
    \/ QueryProcess
    \/ QuerySetTarget
    \/ QueryNotify
    \/ QueryUnlock
    \/ \E s \in env.sessions : Connect(s)
    \/ \E s \in Sessions : handle_subscribe(s)
    \/ \E s \in Sessions, a \in env.addresses : authorize_handler(s, a)
    \/ \E s \in Sessions : handle_submit(s)
    \/ \E s \in Sessions, a \in Answers : SubmitResponse(s, a)

Spec == Init /\ [][Next]_vars

\* ------------------------------------------------------------ the steps
\* The steps of a behaviour that the properties below speak about.
SubmitAdmitted(s) == sess[s].pc = "open" /\ sess'[s].pc = "posting"

SubmitRefused(s) ==
    /\ sess[s].pc = "open"
    /\ \E m \in out' : m.to = s /\ m.re = "mining.submit"

SubmitAnswered(s) == sess[s].pc = "posting" /\ sess'[s].pc = "open"

SubmitAccepted(s) == SubmitAnswered(s) /\ accepted' # accepted

SubmitRejected(s) == SubmitAnswered(s) /\ accepted' = accepted

TemplateProcessed == q.pc = "process" /\ q'.pc # "process"

SetTargetSent == q.pc = "set_target" /\ q'.pc # "set_target"

NotifySent == q.pc = "notify" /\ q'.pc # "notify"

Notifies(o) == {m \in o : m.method = "mining.notify"}

\* The height a header hash was computed for: dsha256 of the partial header,
\* whose first field is the height.
HeaderHeight(header_hash) == header_hash[2][2]

NoWorkError == "Waiting for next block template"

\* -------------------------------------------------------------- the claims
\* C1: after a mining.submit that the node accepted, every further
\* mining.submit is refused with the no-active-work error for as long as the
\* node's template height has not advanced.
C1_LockedUntilHeightAdvances ==
    [][\A s \in Sessions : SubmitAdmitted(s) => accepted = 0]_vars

\* C2: while the template height stays the same, at most one mining.submit
\* sets wait_for_new_block and returns success.
C2_AtMostOneAcceptedPerHeight == accepted <= 1

\* C3: the mining.notify of a tick is delivered to every session that is
\* connected at that moment.
C3_NotifyReachesEverySession ==
    [][NotifySent => {m.to : m \in Notifies(out')} = Connected]_vars

\* C4: in a tick that starts with wait_for_new_block set, update_transactions
\* returns false, no candidate is built and no notification is sent.
C4_LockedTickIsSilent ==
    [][(TemplateProcessed /\ obs.wait0)
          => /\ ~q'.should_notify
             /\ q'.pc = "fetch"
             /\ tx'.coinbase = tx.coinbase
             /\ tx'.header_hash = tx.header_hash
             /\ tx'.transactions \in {tx.transactions, << >>}]_vars

\* C5: wait_for_new_block goes from set to unset only in a tick whose fetched
\* height differs from the previously observed height, and only after that
\* tick's mining.notify has been sent.
C5_UnlockOnlyOnHeightChange ==
    [][(tx.wait_for_new_block /\ ~tx'.wait_for_new_block)
          => (q.pc = "unlock" /\ obs.changed /\ obs.notified)]_vars

\* C6 as claimed: clean_jobs of every mining.notify is true exactly when the
\* fetched height differs from the height of the previous tick, and
\* mining.set_target is sent, before the notify, only in such ticks.
C6_CleanJobsIffHeightChanged ==
    [][/\ NotifySent => \A m \in Notifies(out') : m.params.clean_jobs = obs.changed
       /\ SetTargetSent => (obs.changed /\ ~obs.notified)]_vars

\* C6 as amended: clean_jobs of every mining.notify is true exactly when the
\* fetched height differs from the height of the previous tick or no
\* transactions were held when the tick's template was processed, and
\* mining.set_target is sent, before the notify, only in such ticks.
C6_CleanJobsIffClearWork ==
    [][/\ NotifySent =>
            /\ Notifies(out') # {}
            /\ \A m \in Notifies(out') :
                  m.params.clean_jobs = (obs.changed \/ obs.noheld)
       /\ SetTargetSent => ((obs.changed \/ obs.noheld) /\ ~obs.notified)]_vars

\* A mining.notify with clean_jobs set has gone out in a tick that fetched the
\* height of the previous tick.
C6_Witness ==
    /\ q.pc = "unlock"
    /\ ~obs.changed /\ obs.noheld
    /\ \E m \in Notifies(out) : m.params.clean_jobs

\* C7: the header hash and the seed hash of every mining.notify belong to a
\* candidate built for the height the notification announces.
C7_NotifyCarriesCommittedWork ==
    [][NotifySent =>
          \A m \in Notifies(out') :
              /\ HeaderHeight(m.params.header_hash) = m.params.height
              /\ m.params.seed_hash
                     = seed_hash_of(m.params.height \div KAWPOW_EPOCH_LENGTH)]_vars

\* The candidate update_transactions builds from scratch for the template tpl.
FullyRebuilt(t, tpl) ==
    /\ t.update_counter = 0
    /\ t.coinbase # Unset
    /\ t.coinbase[2].height = tpl.height
    /\ t.transactions = <<t.coinbase>> \o tpl.transactions
    /\ HeaderHeight(t.header_hash) = tpl.height

\* C8: a submitblock answer with an error or a non-empty result makes
\* mining.submit fail with that rejection, clears the held transactions and
\* leaves wait_for_new_block unset; the next template the synchronizer
\* processes is then fully rebuilt whatever the re-roll counter.
C8_RejectionForcesRebuild ==
    [][/\ \A s \in Sessions :
            SubmitRejected(s) =>
                /\ \E m \in out' : m.to = s /\ m.params \in {"error", "result"}
                /\ tx'.transactions = << >>
                /\ ~tx'.wait_for_new_block
       /\ (TemplateProcessed /\ obs.rejected /\ tx.my_address # None)
             => FullyRebuilt(tx', q.json_resp[1])]_vars

\* C9: a mining.submit that the node accepts sets wait_for_new_block and
\* returns true, and the held work is then still what the submitted block was
\* assembled from.
C9_AcceptKeepsHeldWork ==
    [][\A s \in Sessions :
          SubmitAccepted(s) =>
              /\ tx'.wait_for_new_block
              /\ \E m \in out' : m.to = s /\ m.params = "true"
              /\ tx'.transactions = sess[s].block[1].transactions
              /\ tx'.partial_header = sess[s].block[1].header]_vars

\* C10: a mining.submit received while wait_for_new_block is set or no
\* transactions are held fails with the no-active-work error, sends no
\* submitblock request and leaves the work state unchanged.
C10_RefusedWithoutWork ==
    [][\A s \in Sessions :
          ((SubmitAdmitted(s) \/ SubmitRefused(s))
              /\ (tx.wait_for_new_block \/ tx.transactions = << >>))
            => /\ out' = {Reply(s, "mining.submit", NoWorkError)}
               /\ tx' = tx
               /\ sess' = sess]_vars

\* A submit has just been refused with the no-active-work error while
\* wait_for_new_block was set.
C10_Witness ==
    /\ \E m \in out : m.re = "mining.submit" /\ m.params = NoWorkError
    /\ tx.wait_for_new_block

\* ------------------------------------------------- mining.authorize (C11)
\* The state after construction when the surroundings supply the inputs e.
InitWith(e) ==
    /\ tx = TxInit
    /\ env = e
    /\ node \in [height : {FirstHeight}, transactions : env.mempools]
    /\ q = QInit
    /\ sess = [s \in Sessions |-> SessInit]
    /\ out = {}
    /\ obs = ObsInit
    /\ accepted = 0
    /\ call = NoCall

\* One miner that authorizes with addresses of either network, with and
\* without a worker name, and with an address whose checksum is wrong; the
\* process runs for the main network or for the test network.
AuthEnv(testnet) ==
    [sessions |-> {"s1"},
     mempools |-> {<< >>, <<1>>},
     clock |-> {1400},
     addresses |-> {<<"mainA", "rig1">>, <<"mainB">>, <<"testT", "rig2">>, <<"badsum">>},
     testnet |-> testnet]

InitAuth == \E testnet \in BOOLEAN : InitWith(AuthEnv(testnet))

SpecAuth == InitAuth /\ [][Next]_vars

\* The step answers a mining.authorize request.
AuthorizeAnswered == \E m \in out' : m.re = "mining.authorize"

QueryFetchRaises ==
    /\ q.pc = "fetch"
    /\ q' = [q EXCEPT !.pc = "raised"]
    /\ out' = {}
    /\ UNCHANGED <<tx, node, sess, obs, accepted, env, call>>

\* Lines 277-292: the template that arrived lacks one of the fields read while
\* the arguments of update_transactions are evaluated (lines 283-291); the
\* height comparison of lines 278-281 has run by then.
QueryProcessRaises ==
    /\ q.pc = "process"
    /\ LET tpl == q.json_resp[1]
       IN  /\ tx' = IF HeightChanged(q.height, tpl) THEN clear_for_new_height(tx) ELSE tx
           /\ q' = [q EXCEPT !.pc = "raised", !.height = tpl.height]
    /\ out' = {}
    /\ UNCHANGED <<node, sess, obs, accepted, env, call>>

\* Lines 303-311: when query_loop raises, the task group cancels the server
\* task and execute re-raises the exception: the process ends.
Running == q.pc # "raised"

NextFail ==
    \/ Running /\ Next
    \/ QueryFetchRaises
    \/ QueryProcessRaises

SpecFail == Init /\ [][NextFail]_vars

\* C12: a tick whose fetch fails or whose template lacks fields stops neither
\* the loop nor the process and leaves the work state as it was: the next tick
\* is due and tx is unchanged.
C12_FailedTickIsSkipped ==
    [][(QueryFetchRaises \/ QueryProcessRaises) => (q'.pc = "fetch" /\ tx' = tx)]_vars

\* ------------------------------------------------ the derived fields (C13)
\* The ids of the held transactions: the double hash of the coinbase without
\* its witness, then the txid of each mempool transaction.
HeldIds(t) ==
    [i \in 1 .. Len(t.transactions) |->
        IF i = 1
        THEN dsha256(<<"no_witness", t.transactions[1][2]>>)
        ELSE <<"txid", t.transactions[i]>>]

\* merkle, partial_header, header_hash and seed_hash are what the held
\* transactions and the height of the header give.
DerivedFromHeld(t) ==
    /\ t.merkle = merkle_from_txids(HeldIds(t))
    /\ t.partial_header[5] = t.merkle
    /\ t.header_hash = dsha256(t.partial_header)
    /\ t.seed_hash = seed_hash_of(t.partial_header[2] \div KAWPOW_EPOCH_LENGTH)

\* C13: in every reachable state in which a candidate has been built, merkle,
\* header_hash and seed_hash are the values derived from the transactions
\* currently held and the height: no operation changes transactions without
\* the derived fields following.
C13_DerivedFieldsFollowTransactions ==
    tx.header_hash # Unset => DerivedFromHeld(tx)

\* ---------------------------------------------------- the timestamp (C14)
\* update_transactions is called at wall-clock times that do not decrease,
\* from FirstClock up to MaxClock, a tick or minutes apart.
FirstClock == 1390

MaxClock == 2190

ClockSteps == {0, 1, 9, 60, 301}

\* The state after construction; the clock is in `call`.
InitTs ==
    /\ tx = TxInit
    /\ env = SpecEnv
    /\ node \in [height : {FirstHeight}, transactions : env.mempools]
    /\ q = QInit
    /\ sess = [s \in Sessions |-> SessInit]
    /\ out = {}
    /\ obs = ObsInit
    /\ accepted = 0
    /\ call = [now |-> FirstClock]

\* Lines 282-292 at a later time: int(time.time()) is passed as ts.
TimestampCall ==
    /\ \E d \in ClockSteps :
          /\ call.now + d <= MaxClock
          /\ call' = [now |-> call.now + d]
          /\ tx' = update_transactions(tx, FALSE, Template(node), call.now + d).tx
    /\ UNCHANGED <<node, q, sess, out, obs, accepted, env>>

SpecTs == InitTs /\ [][TimestampCall]_vars

\* The decimal form of n ends in 420 or in 69.
EndsIn420Or69(n) == n % 1000 = 420 \/ n % 100 = 69

MaxLeaves == 6

MerkleLeaves == {<<"txid", 1>>, <<"txid", 2>>}

InitMerkle ==
    /\ tx = TxInit
    /\ env = SpecEnv
    /\ node \in [height : {FirstHeight}, transactions : {<< >>}]
    /\ q = QInit
    /\ sess = [s \in Sessions |-> SessInit]
    /\ out = {}
    /\ obs = ObsInit
    /\ accepted = 0
    /\ \E n \in 0 .. MaxLeaves :
          call \in [txids : [1 .. n -> MerkleLeaves], root : {Unset}]

MerkleCall ==
    /\ call.root = Unset
    /\ call' = [call EXCEPT !.root = <<merkle_from_txids(call.txids)>>]
    /\ UNCHANGED <<tx, node, q, sess, out, obs, accepted, env>>

SpecMerkle == InitMerkle /\ [][MerkleCall]_vars

\* The reference algorithm: the double hash of the empty string for no leaf,
\* the leaf itself for one leaf, and otherwise level by level the double hash
\* of each pair, the last element of a level being paired with itself only
\* when the level has an odd number of elements.
RECURSIVE ReferenceLevels(_)
ReferenceLevels(level) ==
    IF Len(level) = 1
    THEN level[1]
    ELSE LET padded == IF Len(level) % 2 = 1
                       THEN level \o <<level[Len(level)]>>
                       ELSE level
         IN  ReferenceLevels(
                 [i \in 1 .. (Len(padded) \div 2) |->
                     <<"dsha256", <<padded[2 * i - 1], padded[2 * i]>> >>])

ReferenceMerkle(leaves) ==
    IF leaves = << >> THEN <<"dsha256", << >> >> ELSE ReferenceLevels(leaves)

\* C15: for every sequence of leaves, from none up to the bound,
\* merkle_from_txids returns the root of the reference algorithm.
C15_MerkleMatchesReference ==
    call.root # Unset => call.root[1] = ReferenceMerkle(call.txids)

\* The root of five leaves, a count that is odd at two levels, has been
\* computed.
C15_Witness == call.root # Unset /\ Len(call.txids) = 5

\* ------------------------------------------- the height in the coinbase (C16)
\* build_coinbase_transaction is called for every height up to
\* MaxCoinbaseHeight (one and two bytes) and for the first and last heights of
\* three and four bytes.
MaxCoinbaseHeight == 300

CoinbaseHeights == (0 .. MaxCoinbaseHeight) \cup {65535, 65536, 16777215, 16777216}

InitCoinbase ==
    /\ tx = TxInit
    /\ env = SpecEnv
    /\ node \in [height : {FirstHeight}, transactions : {<< >>}]
    /\ q = QInit
    /\ sess = [s \in Sessions |-> SessInit]
    /\ out = {}
    /\ obs = ObsInit
    /\ accepted = 0
    /\ call \in [height : CoinbaseHeights, result : {Unset}]

\* The call raises, or returns with the coinbase stored in the state.
CoinbaseCall ==
    /\ call.result = Unset
    /\ LET tpl == Template([height |-> call.height, transactions |-> << >>])
           raised == bip34_height(call.height, tpl.flags).raised
           built == build_coinbase_transaction(tx, call.height, tpl.flags, "mainA",
                        tpl.coinbasevalue, tpl.default_witness_commitment)
       IN  /\ call' = [call EXCEPT !.result =
                          <<[raised |-> raised,
                             bip34_height |-> IF raised THEN << >>
                                              ELSE built.coinbase[2].bip34_height]>>]
           /\ tx' = IF raised THEN tx ELSE built
    /\ UNCHANGED <<node, q, sess, out, obs, accepted, env>>

SpecCoinbase == InitCoinbase /\ [][CoinbaseCall]_vars

\* The shortest little-endian byte string of n: no byte at all for zero.
RECURSIVE ShortestLittleEndian(_)
ShortestLittleEndian(n) ==
    IF n = 0 THEN << >> ELSE <<n % 256>> \o ShortestLittleEndian(n \div 256)

\* C16: for every height from 0 up to the bound build_coinbase_transaction
\* completes and encodes the height as a length byte followed by the shortest
\* little-endian byte string (height 0: a single zero byte; 255: 01 FF); the
\* byte after it is the zero byte that stands for empty flags.
C16_HeightEncoding ==
    call.result # Unset =>
        /\ ~call.result[1].raised
        /\ call.result[1].bip34_height =
               <<Len(ShortestLittleEndian(call.height))>>
                   \o ShortestLittleEndian(call.height) \o <<0>>

\* ------------------------------------- mempool and payout changes (C17, C18)
\* One miner, two payout addresses, and mempools of which two have the same
\* number of transactions.
WorkEnv ==
    [sessions |-> {"s1"},
     mempools |-> {<< >>, <<1>>, <<2>>},
     clock |-> {1400},
     addresses |-> {<<"mainA", "rig1">>, <<"mainB", "rig1">>},
     testnet |-> FALSE]

InitWork == InitWith(WorkEnv)

SpecWork == InitWork /\ [][Next]_vars

\* C17: after every tick that processes a template with the payout address
\* known and wait_for_new_block unset, the held transactions after the coinbase
\* are the transactions of that template, in order; a mempool whose content
\* changed between two ticks, also at the same count, is rebuilt and notified.
C17_HeldMatchesTemplate ==
    [][(TemplateProcessed /\ tx'.my_address # None /\ ~tx'.wait_for_new_block) =>
          /\ tx'.transactions # << >>
          /\ Tail(tx'.transactions) = q.json_resp[1].transactions]_vars

\* The tick has assembled a candidate that differs from the one held before.
CandidateBuilt ==
    /\ TemplateProcessed
    /\ tx'.transactions # << >>
    /\ tx'.transactions # tx.transactions

\* C18: every candidate built after a successful authorize pays its coinbase
\* to the address of the most recent successful authorize at the time of the
\* build, never to an earlier address.
C18_CoinbasePaysCurrentAddress ==
    [][CandidateBuilt => tx'.transactions[1][2].address = tx.my_address]_vars

\* ------------------------------------------ the height of held work (C19)
\* C19: whenever transactions are held, the first is the current coinbase, and
\* the coinbase and the partial header were built for the template height the
\* synchronizer observed last; so the block a mining.submit forwards is never
\* assembled for a height older than the one last observed.
C19_HeldWorkIsForObservedHeight ==
    /\ [](tx.transactions # << >> =>
            /\ tx.transactions[1] = tx.coinbase
            /\ tx.coinbase[2].height = q.height
            /\ tx.partial_header[2] = q.height)
    /\ [][\A s \in Sessions :
            SubmitAdmitted(s) =>
                /\ sess'[s].block[1].header[2] = q.height
                /\ sess'[s].block[1].transactions[1][2].height = q.height]_vars

\* A block is being forwarded to the node after the synchronizer has observed
\* a second height.
C19_Witness ==
    /\ \E s \in Sessions : sess[s].pc = "posting" /\ sess[s].block[1].header[2] = q.height
    /\ q.height > FirstHeight

\* ------------------------------------------------ leaving no-work (C20)
\* One miner with one address.
LiveEnv ==
    [sessions |-> {"s1"},
     mempools |-> {<< >>, <<1>>},
     clock |-> {1400},
     addresses |-> {<<"mainA", "rig1">>},
     testnet |-> FALSE]

\* The steps of query_loop around the processing of a template.
QueryStep == QueryFetch \/ QuerySetTarget \/ QueryNotify \/ QueryUnlock

\* query_loop is a `while True` with a sleep of 0.1 s whose awaits return as
\* long as the node answers: its next step is taken once it is due.  For
\* QueryProcess, which is enabled exactly while q.pc = "process" and always
\* leaves that place, weak fairness is written as the loop being away from
\* "process" again and again.  The chain grows as long as the model lets it.
SpecLive ==
    /\ InitWith(LiveEnv)
    /\ [][Next]_vars
    /\ WF_vars(QueryStep)
    /\ []<>(q.pc # "process")
    /\ WF_vars(NodeNewBlock)

\* No submit can be admitted, an address is authorized, a session is
\* connected and the node's height is still to advance.
NoWorkButRecoverable ==
    /\ NoActiveWork(tx)
    /\ tx.my_address # None
    /\ tx.transport # None
    /\ node.height < FirstHeight + MaxAdvance

\* C20: the proxy does not stay without work for ever: when an address is
\* authorized, a session is connected, the ticks succeed and the node's height
\* advances, then from a state in which submits are refused a mining.notify
\* is eventually sent, and eventually a candidate is held with
\* wait_for_new_block unset.
C20_NoWorkEnds ==
    /\ NoWorkButRecoverable ~> (\E m \in out : m.method = "mining.notify")
    /\ NoWorkButRecoverable ~> (tx.transactions # << >> /\ ~tx.wait_for_new_block)

\* The lock is set while a candidate is held, so that only another height
\* releases it.
C20_Witness ==
    /\ NoWorkButRecoverable
    /\ tx.wait_for_new_block
    /\ tx.transactions # << >>

====
